---- MODULE Spec2Model ----
(***************************************************************************)
(* Model of the Focus Ruler engine (content-scripts/focus-ruler.js) and of *)
(* the parts of the browser it drives: the document, the window's event    *)
(* listeners, the host event loop's queued input events and the            *)
(* requestAnimationFrame callback list; and of the injection guards of the *)
(* content scripts and the typography engine                               *)
(* (content-scripts/typography.js), which share the page with it.          *)
(*                                                                         *)
(* The functions of the script are operators on a record st holding the    *)
(* module state and the browser state, so that a handler is the            *)
(* composition of the calls it makes, as in the source.                    *)
(***************************************************************************)
EXTENDS Integers, Sequences, FiniteSets, TLC

\* ---- bounds of the model ------------------------------------------------
MaxQueue  == 1    \* input events queued by the host event loop
MaxEvents == 2    \* pointer events produced by the user in one behaviour
MaxHandles == 3   \* requestAnimationFrame handles in use at once
MaxElems  == 2    \* shadow host elements alive at once
MaxCycles == 1    \* enable->disable cycles counted
MaxCallbacks == 2 \* chrome.storage.local.get callbacks pending at once
MaxCommands == 2  \* keyboard commands issued in one behaviour
MaxPopup == 2     \* popup inputs made in one behaviour
MaxTasks == 2     \* storage callbacks waiting in the service worker
MaxQueries == 1   \* chrome.tabs.query calls waiting for their answer
MaxInbox == 1     \* messages on their way to the tab

\* ---- JS values ----------------------------------------------------------
\* null and undefined are values outside the range of the numbers used.
Null  == 0 - 1
Undef == 0 - 2

\* Template literals: `${v}px` and `${v}`.
Px(v)  == <<v, "px">>
Str(v) == <<v, "">>

\* ---- constants of the script ---------------------------------------------
DEFAULT_HEIGHT  == 40
DEFAULT_OPACITY == 75      \* 0.75, opacities are counted in hundredths

\* ---- input domains -------------------------------------------------------
PointerYs  == {120, 250}
Viewports  == {<<1280, 800>>, <<1024, 600>>}       \* innerWidth, innerHeight
InitialViewport == <<1280, 800>>
HeightVals == {60}         \* thickness values other than the default
OpacityVals == {30}        \* intensity values other than the default
SettingsVals == [height : HeightVals \cup {Undef}, opacity : OpacityVals \cup {Undef}]
NoSettings == [height |-> Undef, opacity |-> Undef]

VarNames == {"--ruler-y", "--ruler-height", "--dim-opacity", "--vw", "--vh"}
\* Inline style of an element on which no custom property has been set.
EmptyStyle == [n \in VarNames |-> <<>>]

VARIABLES
  \* module state of the script
  shadowHost, overlay, isEnabled, rafId, pendingY, currentY,
  initDone, listenerRegistered,
  \* browser state
  overlayStyle,   \* custom properties on the element `overlay` refers to
  docHosts,       \* elements with id SHADOW_HOST_ID that are in the document
  listeners,      \* event types for which window has the script's listener
  rafQueue,       \* handles of the scheduled animation frame callbacks
  innerWidth, innerHeight,
  eventQueue,     \* input events queued by the host event loop
  \* history
  trace,          \* calls made in the last step: the script's functions
                  \* entered and the browser functions they called
  samples,        \* clientY of the pointer events handled since the last tick
  lastBatch,      \* what `samples` was when the tick of the last step ran
  cycles,         \* completed enable->disable cycles
  nEvents,        \* pointer events produced so far
  pendingSrc,     \* number of the pointer event pendingY was taken from
  currentSrc,     \* number of the pointer event currentY was taken from
  \* the page the content scripts share
  windowFlags,    \* guard flags set on window
  instances,      \* per content script: closures created, each with its own
                  \* state and its own chrome.runtime.onMessage listener
  fontStyles,     \* font of the #otter-font-override elements in the document
  scaleStyles,    \* scale of the #otter-scale-override elements in the document
  storage,        \* the typography keys of chrome.storage.local
  callbacks,      \* pending chrome.storage.local.get callbacks of typography.js
  \* the extension around the tab: storage, service worker, popup
  store,          \* chrome.storage.local: the ruler keys and the feature flags
  initData,       \* what the storage read of the tab's init() returns
  workerTasks,    \* storage callbacks waiting in the service worker
  queries,        \* chrome.tabs.query calls whose callback has not run
  inbox,          \* messages sent to the tab and not yet delivered
  nCommands,      \* toggle-focus-ruler commands issued so far
  nPopup,         \* popup inputs made so far
  \* visual-filters.js and the elements it puts into the document
  tintEls,        \* backgroundColor of the #accessilens-overlay elements
  darkStyles,     \* number of #accessilens-dark-mode-style elements
  htmlDark,       \* <html> carries the class accessilens-dark
  rootFilter,     \* mode named by the filter property of <html>, "" when unset
  svgFilters,     \* number of #accessilens-svg-filters elements
  filtersListener,\* registerMessageListener() of visual-filters.js has run
  lastMessage,    \* the message visual-filters.js handled in the last step,
                  \* or what its init() did
  before          \* the document as it was before the last step

prog == <<shadowHost, overlay, isEnabled, rafId, pendingY, currentY,
          initDone, listenerRegistered>>
env  == <<overlayStyle, docHosts, listeners, rafQueue, innerWidth, innerHeight,
          eventQueue>>
hist == <<trace, samples, lastBatch, cycles, nEvents, pendingSrc, currentSrc>>
page == <<windowFlags, instances, fontStyles, scaleStyles, storage, callbacks>>
sys  == <<store, initData, workerTasks, queries, inbox, nCommands, nPopup>>
filters == <<tintEls, darkStyles, htmlDark, rootFilter, svgFilters,
             filtersListener, lastMessage, before>>
vars == <<prog, env, hist, page, sys, filters>>

\* The state the script's functions read and write.
Cur ==
  [shadowHost |-> shadowHost, overlay |-> overlay, isEnabled |-> isEnabled,
   rafId |-> rafId, pendingY |-> pendingY, currentY |-> currentY,
   overlayStyle |-> overlayStyle, docHosts |-> docHosts,
   listeners |-> listeners, rafQueue |-> rafQueue,
   innerWidth |-> innerWidth, innerHeight |-> innerHeight,
   pendingSrc |-> pendingSrc, currentSrc |-> currentSrc,
   trace |-> <<>>]

Commit(st) ==
  /\ shadowHost' = st.shadowHost
  /\ overlay' = st.overlay
  /\ isEnabled' = st.isEnabled
  /\ rafId' = st.rafId
  /\ pendingY' = st.pendingY
  /\ currentY' = st.currentY
  /\ overlayStyle' = st.overlayStyle
  /\ docHosts' = st.docHosts
  /\ listeners' = st.listeners
  /\ rafQueue' = st.rafQueue
  /\ innerWidth' = st.innerWidth
  /\ innerHeight' = st.innerHeight
  /\ pendingSrc' = st.pendingSrc
  /\ currentSrc' = st.currentSrc
  /\ trace' = st.trace
  /\ UNCHANGED page

Call(st, c) == [st EXCEPT !.trace = Append(@, c)]

Min(S) == CHOOSE x \in S : \A y \in S : x <= y

\* ---- browser primitives --------------------------------------------------
\* window.addEventListener: a listener already present is not added again.
addEventListener(st, type) ==
  Call([st EXCEPT !.listeners = @ \cup {type}], <<"addEventListener", type>>)

removeEventListener(st, type) ==
  Call([st EXCEPT !.listeners = @ \ {type}], <<"removeEventListener", type>>)

\* requestAnimationFrame hands out a handle that is not in use.
FreeHandles(st) == (1..MaxHandles) \ (st.rafQueue \cup {st.rafId})
NewHandle(st) == Min(FreeHandles(st))

cancelAnimationFrame(st, h) ==
  Call([st EXCEPT !.rafQueue = @ \ {h}], <<"cancelAnimationFrame", h>>)

\* ---- CSS variables (focus-ruler.js) ---------------------------------------
setVar(st, name, value) ==
  IF st.overlay = Null THEN st
  ELSE Call([st EXCEPT !.overlayStyle[name] = value], <<"setProperty", name, value>>)

applySettings_Swapped(st0, settings) ==
  LET st == Call(st0, <<"applySettings", settings>>)
      s1 == IF settings.height # Undef
            THEN setVar(st, "--dim-opacity", Px(settings.height)) ELSE st
  IN  IF settings.opacity # Undef
      THEN setVar(s1, "--ruler-height", Str(settings.opacity)) ELSE s1

applySettings(st0, settings) ==
  LET st == Call(st0, <<"applySettings", settings>>)
      s1 == IF settings.height # Undef
            THEN setVar(st, "--ruler-height", Px(settings.height)) ELSE st
  IN  IF settings.opacity # Undef
      THEN setVar(s1, "--dim-opacity", Str(settings.opacity)) ELSE s1

\* ---- Shadow DOM + overlay -------------------------------------------------
createOverlay_DefaultY(st0, settings) ==
  LET st == Call(st0, <<"createOverlay", settings>>)
      height  == IF settings.height = Undef THEN DEFAULT_HEIGHT ELSE settings.height
      opacity == IF settings.opacity = Undef THEN DEFAULT_OPACITY ELSE settings.opacity
      s0 == IF st.docHosts = {} THEN st
            ELSE Call([st EXCEPT !.docHosts = @ \ {Min(st.docHosts)}],
                      <<"remove", Min(st.docHosts)>>)
      el == Min((1..MaxElems) \ s0.docHosts)
      s1 == Call([s0 EXCEPT !.shadowHost = el, !.overlay = el,
                            !.overlayStyle = EmptyStyle],
                 <<"createElement", el>>)
      s2 == setVar(s1, "--ruler-y", Px(InitialViewport[2] \div 2))
      s3 == setVar(s2, "--ruler-height", Px(height))
      s4 == setVar(s3, "--dim-opacity", Str(opacity))
      s5 == setVar(s4, "--vw", Px(s4.innerWidth))
      s6 == setVar(s5, "--vh", Px(s5.innerHeight))
  IN  Call([s6 EXCEPT !.docHosts = @ \cup {el}], <<"appendChild", el>>)

createOverlay_Defaults(st0, settings) ==
  LET st == Call(st0, <<"createOverlay", settings>>)
      s0 == IF st.docHosts = {} THEN st
            ELSE Call([st EXCEPT !.docHosts = @ \ {Min(st.docHosts)}],
                      <<"remove", Min(st.docHosts)>>)
      el == Min((1..MaxElems) \ s0.docHosts)
      s1 == Call([s0 EXCEPT !.shadowHost = el, !.overlay = el,
                            !.overlayStyle = EmptyStyle],
                 <<"createElement", el>>)
      s2 == setVar(s1, "--ruler-y", Px(s1.currentY))
      s3 == setVar(s2, "--ruler-height", Px(DEFAULT_HEIGHT))
      s4 == setVar(s3, "--dim-opacity", Str(DEFAULT_OPACITY))
      s5 == setVar(s4, "--vw", Px(s4.innerWidth))
      s6 == setVar(s5, "--vh", Px(s5.innerHeight))
  IN  Call([s6 EXCEPT !.docHosts = @ \cup {el}], <<"appendChild", el>>)

createOverlay(st0, settings) ==
  LET st == Call(st0, <<"createOverlay", settings>>)
      height  == IF settings.height = Undef THEN DEFAULT_HEIGHT ELSE settings.height
      opacity == IF settings.opacity = Undef THEN DEFAULT_OPACITY ELSE settings.opacity
      \* document.getElementById(SHADOW_HOST_ID)?.remove()
      s0 == IF st.docHosts = {} THEN st
            ELSE Call([st EXCEPT !.docHosts = @ \ {Min(st.docHosts)}],
                      <<"remove", Min(st.docHosts)>>)
      el == Min((1..MaxElems) \ s0.docHosts)
      s1 == Call([s0 EXCEPT !.shadowHost = el, !.overlay = el,
                            !.overlayStyle = EmptyStyle],
                 <<"createElement", el>>)
      s2 == setVar(s1, "--ruler-y", Px(s1.currentY))
      s3 == setVar(s2, "--ruler-height", Px(height))
      s4 == setVar(s3, "--dim-opacity", Str(opacity))
      s5 == setVar(s4, "--vw", Px(s4.innerWidth))
      s6 == setVar(s5, "--vh", Px(s5.innerHeight))
  IN  Call([s6 EXCEPT !.docHosts = @ \cup {el}], <<"appendChild", el>>)

destroyOverlay_NoRemove(st0) ==
  [Call(st0, <<"destroyOverlay">>)
     EXCEPT !.shadowHost = Null, !.overlay = Null, !.overlayStyle = EmptyStyle]

destroyOverlay(st0) ==
  LET st == Call(st0, <<"destroyOverlay">>)
      s0 == IF st.shadowHost = Null THEN st
            ELSE Call([st EXCEPT !.docHosts = @ \ {st.shadowHost}],
                      <<"remove", st.shadowHost>>)
  IN  [s0 EXCEPT !.shadowHost = Null, !.overlay = Null, !.overlayStyle = EmptyStyle]

\* ---- rAF loop --------------------------------------------------------------
requestAnimationFrame(st) ==
  LET h == NewHandle(st)
  IN  Call([st EXCEPT !.rafQueue = @ \cup {h}, !.rafId = h],
           <<"requestAnimationFrame", h>>)

startRaf(st) == requestAnimationFrame(Call(st, <<"startRaf">>))

stopRaf_NoCancel(st0) ==
  LET st == Call(st0, <<"stopRaf">>) IN
  IF st.rafId # Null THEN [st EXCEPT !.rafId = Null] ELSE st

stopRaf(st0) ==
  LET st == Call(st0, <<"stopRaf">>) IN
  IF st.rafId # Null
  THEN [cancelAnimationFrame(st, st.rafId) EXCEPT !.rafId = Null]
  ELSE st

loop_KeepPending(st0) ==
  LET st == Call(st0, <<"loop">>) IN
  IF ~st.isEnabled THEN st
  ELSE LET s1 == IF st.pendingY # Null
                 THEN setVar([st EXCEPT !.currentY = st.pendingY,
                                        !.currentSrc = st.pendingSrc],
                             "--ruler-y", Px(st.pendingY))
                 ELSE st
       IN  requestAnimationFrame(s1)

loop_StopWhenIdle(st0) ==
  LET st == Call(st0, <<"loop">>) IN
  IF ~st.isEnabled THEN st
  ELSE IF st.pendingY # Null
       THEN requestAnimationFrame(
              setVar([st EXCEPT !.currentY = st.pendingY,
                                !.currentSrc = st.pendingSrc,
                                !.pendingY = Null,
                                !.pendingSrc = 0],
                     "--ruler-y", Px(st.pendingY)))
       ELSE st

\* The callback startRaf registers.
loop(st0) ==
  LET st == Call(st0, <<"loop">>) IN
  IF ~st.isEnabled THEN st
  ELSE LET s1 == IF st.pendingY # Null
                 THEN setVar([st EXCEPT !.currentY = st.pendingY,
                                        !.currentSrc = st.pendingSrc,
                                        !.pendingY = Null,
                                        !.pendingSrc = 0],
                             "--ruler-y", Px(st.pendingY))
                 ELSE st
       IN  requestAnimationFrame(s1)

\* ---- event handlers ---------------------------------------------------------
onMouseMove_KeepFirst(st, e) ==
  IF st.pendingY # Null THEN Call(st, <<"onMouseMove", e.clientY>>)
  ELSE [Call(st, <<"onMouseMove", e.clientY>>)
          EXCEPT !.pendingY = e.clientY, !.pendingSrc = e.n]

onMouseMove(st, e) ==
  [Call(st, <<"onMouseMove", e.clientY>>)
     EXCEPT !.pendingY = e.clientY, !.pendingSrc = e.n]

onResize_ResetsY(st) ==
  LET s1 == setVar(Call(st, <<"onResize">>), "--vw", Px(st.innerWidth))
      s2 == setVar(s1, "--vh", Px(s1.innerHeight))
  IN  setVar(s2, "--ruler-y", Px(s2.innerHeight \div 2))

onResize(st) ==
  LET s1 == setVar(Call(st, <<"onResize">>), "--vw", Px(st.innerWidth))
  IN  setVar(s1, "--vh", Px(s1.innerHeight))

\* ---- enable / disable --------------------------------------------------------

enable_NoGuard(st0, settings) ==
  LET st == Call(st0, <<"enable", settings>>)
      s1 == [st EXCEPT !.isEnabled = TRUE]
      s2 == createOverlay(s1, settings)
      s3 == addEventListener(s2, "mousemove")
      s4 == addEventListener(s3, "resize")
  IN  startRaf(s4)

enable_Recreate(st0, settings) ==
  LET st == Call(st0, <<"enable", settings>>)
  IN  IF st.isEnabled THEN createOverlay(destroyOverlay(st), settings)
      ELSE LET s1 == [st EXCEPT !.isEnabled = TRUE]
               s2 == createOverlay(s1, settings)
               s3 == addEventListener(s2, "mousemove")
               s4 == addEventListener(s3, "resize")
           IN  startRaf(s4)

enable(st0, settings) ==
  LET st == Call(st0, <<"enable", settings>>)
  IN  IF st.isEnabled THEN applySettings(st, settings)
      ELSE LET s1 == [st EXCEPT !.isEnabled = TRUE]
               s2 == createOverlay(s1, settings)
               s3 == addEventListener(s2, "mousemove")
               s4 == addEventListener(s3, "resize")
           IN  startRaf(s4)

disable_KeepMouse(st0) ==
  LET st == Call(st0, <<"disable">>)
  IN  IF ~st.isEnabled THEN st
      ELSE LET s1 == [st EXCEPT !.isEnabled = FALSE]
               s2 == stopRaf(s1)
               s4 == removeEventListener(s2, "resize")
           IN  destroyOverlay(s4)

disable_ClearPending(st0) ==
  LET st == Call(st0, <<"disable">>)
  IN  IF ~st.isEnabled THEN st
      ELSE LET s1 == [st EXCEPT !.isEnabled = FALSE, !.pendingY = Null,
                                !.pendingSrc = 0]
               s2 == stopRaf(s1)
               s3 == removeEventListener(s2, "mousemove")
               s4 == removeEventListener(s3, "resize")
           IN  destroyOverlay(s4)

disable(st0) ==
  LET st == Call(st0, <<"disable">>)
  IN  IF ~st.isEnabled THEN st
      ELSE LET s1 == [st EXCEPT !.isEnabled = FALSE]
               s2 == stopRaf(s1)
               s3 == removeEventListener(s2, "mousemove")
               s4 == removeEventListener(s3, "resize")
           IN  destroyOverlay(s4)

\* ---- message listener ---------------------------------------------------------
\* Flags carried by messages and storage are "true", "false" or "undefined"
\* (absent); a test of a flag succeeds on "true" only.  A settings or state
\* object that is absent reads as one whose fields are all undefined
\* (message.settings?.height, message.settings || {}, message.state || {}).
Flags == {"true", "false", "undefined"}
StateVals == [focusRulerEnabled : Flags,
              rulerHeight : HeightVals \cup {Undef},
              dimOpacity : OpacityVals \cup {Undef}]
NoState == [focusRulerEnabled |-> "undefined", rulerHeight |-> Undef,
            dimOpacity |-> Undef]

\* The snapshots REAPPLY_STATE carries: height and opacity are read only when
\* the flag is set.
ReapplyStates ==
  {s \in StateVals : s.focusRulerEnabled # "true"
                       => s.rulerHeight = Undef /\ s.dimOpacity = Undef}

Msg(type, enabled, settings, state) ==
  [type |-> type, enabled |-> enabled, settings |-> settings, state |-> state]

Messages ==
       {Msg("FOCUS_RULER_TOGGLE", "true", s, NoState) : s \in SettingsVals}
  \cup {Msg("FOCUS_RULER_TOGGLE", "false", NoSettings, NoState)}
  \cup {Msg("FOCUS_RULER_UPDATE_SETTINGS", "undefined", s, NoState) : s \in SettingsVals}
  \cup {Msg("FOCUS_RULER_GET_STATE", "undefined", NoSettings, NoState)}
  \cup {Msg("REAPPLY_STATE", "undefined", NoSettings, s) : s \in ReapplyStates}

sendResponse(st, response) == Call(st, <<"sendResponse", response>>)

stateResponse_Pending(st) ==
  <<"ok", st.isEnabled, IF st.pendingY # Null THEN st.pendingY ELSE st.currentY>>

\* { ok: true, enabled: isEnabled, y: currentY }
stateResponse(st) == <<"ok", st.isEnabled, st.currentY>>

onMessage_AckFirst(st, message) ==
  CASE message.type = "FOCUS_RULER_TOGGLE" ->
         LET s1 == sendResponse(st, <<"ok", message.enabled>>)
         IN  IF message.enabled = "true"
             THEN enable(s1, [height |-> message.settings.height,
                              opacity |-> message.settings.opacity])
             ELSE disable(s1)
    [] message.type = "FOCUS_RULER_UPDATE_SETTINGS" ->
         applySettings(sendResponse(st, <<"ok">>), message.settings)
    [] message.type = "FOCUS_RULER_GET_STATE" ->
         sendResponse(st, stateResponse(st))
    [] message.type = "REAPPLY_STATE" ->
         LET s  == message.state
             s1 == sendResponse(st, <<"ok">>)
         IN  IF s.focusRulerEnabled = "true"
             THEN enable(s1, [height |-> s.rulerHeight, opacity |-> s.dimOpacity])
             ELSE disable(s1)
    [] OTHER -> st

\* The listener registerMessageListener adds to chrome.runtime.onMessage.
onMessage(st, message) ==
  CASE message.type = "FOCUS_RULER_TOGGLE" ->
         LET s1 == IF message.enabled = "true"
                   THEN enable(st, [height |-> message.settings.height,
                                    opacity |-> message.settings.opacity])
                   ELSE disable(st)
         IN  sendResponse(s1, <<"ok", message.enabled>>)
    [] message.type = "FOCUS_RULER_UPDATE_SETTINGS" ->
         sendResponse(applySettings(st, message.settings), <<"ok">>)
    [] message.type = "FOCUS_RULER_GET_STATE" ->
         sendResponse(st, stateResponse(st))
    [] message.type = "REAPPLY_STATE" ->
         LET s  == message.state
             s1 == IF s.focusRulerEnabled = "true"
                   THEN enable(st, [height |-> s.rulerHeight, opacity |-> s.dimOpacity])
                   ELSE disable(st)
         IN  sendResponse(s1, <<"ok">>)
    [] OTHER -> st

\* ---- bootstrap -------------------------------------------------------------------
\* What chrome.storage.local.get resolves to: a key that is not stored is absent.
StorageResults == StateVals

initResolved_IgnoreStored(st, result) ==
  IF result.focusRulerEnabled = "true" THEN enable(st, NoSettings) ELSE st

\* The part of init() after the storage read has resolved with `result`.
initResolved(st, result) ==
  IF result.focusRulerEnabled = "true"
  THEN enable(st, [height  |-> IF result.rulerHeight = Undef
                               THEN DEFAULT_HEIGHT ELSE result.rulerHeight,
                   opacity |-> IF result.dimOpacity = Undef
                               THEN DEFAULT_OPACITY ELSE result.dimOpacity])
  ELSE st

\* ---- storage, service worker --------------------------------------------------------
\* Feature flags other than focusRulerEnabled that the navigation guard tests.
ActiveKeys == {"overlayEnabled", "darkModeEnabled", "cvdEnabled",
               "dyslexiaFontEnabled", "bionicReadingEnabled", "ttsEnabled"}

\* chrome.storage.local: the ruler's keys, and `others`, the boolean keys other
\* than focusRulerEnabled whose value is true.
DEFAULTS ==
  [focusRulerEnabled |-> "false", rulerHeight |-> DEFAULT_HEIGHT,
   dimOpacity |-> DEFAULT_OPACITY, others |-> {}]

StoreVals ==
  [focusRulerEnabled : {"true", "false"},
   rulerHeight : {DEFAULT_HEIGHT} \cup HeightVals,
   dimOpacity : {DEFAULT_OPACITY},
   others : {{}, {"ttsEnabled"}, {"typographyEngineEnabled"}}]

\* The tab ids: RulerTab is the tab the ruler model runs in.
RulerTab == 1
Tabs == {1, 2}
NoTab == 0

\* The keys init() of focus-ruler.js asks for.
RulerKeys(stored) ==
  [focusRulerEnabled |-> stored.focusRulerEnabled,
   rulerHeight |-> stored.rulerHeight, dimOpacity |-> stored.dimOpacity]

\* The state of the extension the service worker and the popup act on.
CurSys ==
  [store |-> store, workerTasks |-> workerTasks, queries |-> queries,
   inbox |-> inbox, trace |-> <<>>]

\* !flag of a stored boolean
Not(flag) == IF flag = "true" THEN "false" ELSE "true"

\* chrome.tabs.sendMessage(tabId, message); a tab other than the ruler's is
\* not followed further.
sendMessage(w, tabId, message) ==
  Call([w EXCEPT !.inbox = IF tabId = RulerTab THEN Append(@, message) ELSE @],
       <<"sendMessage", tabId, message>>)

\* broadcastToActiveTab(message): the query is answered later.
broadcastToActiveTab(w, message) ==
  Call([w EXCEPT !.queries = Append(@, [to |-> "active", message |-> message])],
       <<"chrome.tabs.query", "active">>)

\* sendToAllTabs(message) of the popup.
sendToAllTabs(w, message) ==
  Call([w EXCEPT !.queries = Append(@, [to |-> "all", message |-> message])],
       <<"chrome.tabs.query", "all">>)

\* The callback of a chrome.tabs.query: `active` is tabs[0]?.id of the answer.
queryCallback(w, q, active) ==
  IF q.to = "active"
  THEN IF active = NoTab THEN w ELSE sendMessage(w, active, q.message)
  ELSE sendMessage(sendMessage(w, 1, q.message), 2, q.message)

\* chrome.storage.local.get(keys, callback) in the service worker: the read is
\* served at once, the callback runs later.
workerGet(w, task) ==
  Call([w EXCEPT !.workerTasks = Append(@, [task EXCEPT !.data = w.store])],
       <<"chrome.storage.local.get", task.kind>>)

\* chrome.commands.onCommand listener.
onCommand(w0, command) ==
  LET w == Call(w0, <<"onCommand", command>>)
  IN  IF command = "toggle-focus-ruler"
      THEN workerGet(w, [kind |-> "onCommand", tabId |-> NoTab, data |-> DEFAULTS])
      ELSE w

\* (result) => { next = !result.focusRulerEnabled; set; broadcast }
onCommandCallback(w0, result) ==
  LET w    == Call(w0, <<"onCommandCallback", result>>)
      next == Not(result.focusRulerEnabled)
      w1   == Call([w EXCEPT !.store.focusRulerEnabled = next],
                   <<"chrome.storage.local.set", "focusRulerEnabled", next>>)
  IN  broadcastToActiveTab(w1, Msg("FOCUS_RULER_TOGGLE", next, NoSettings, NoState))

anyActive(stored) ==
  stored.focusRulerEnabled = "true" \/ stored.others \cap ActiveKeys # {}

onUpdated_AnyStatus(w0, tabId, status) ==
  workerGet(Call(w0, <<"onUpdated", tabId, status>>),
            [kind |-> "onUpdated", tabId |-> tabId, data |-> DEFAULTS])

\* chrome.tabs.onUpdated listener.
onUpdated(w0, tabId, status) ==
  LET w == Call(w0, <<"onUpdated", tabId, status>>)
  IN  IF status # "complete" THEN w
      ELSE workerGet(w, [kind |-> "onUpdated", tabId |-> tabId, data |-> DEFAULTS])

\* (stored) => { if (!anyActive) return; sendMessage(tabId, REAPPLY_STATE) }
onUpdatedCallback(w0, tabId, stored) ==
  LET w == Call(w0, <<"onUpdatedCallback", tabId, stored>>)
  IN  IF ~anyActive(stored) THEN w
      ELSE sendMessage(w, tabId, Msg("REAPPLY_STATE", "undefined", NoSettings, stored))

\* ---- popup ------------------------------------------------------------------------
\* rulerToggle change handler: the flag is written, then the tabs are told, with
\* the thickness and intensity the popup shows.
rulerToggleChange(w0, enabled) ==
  LET w  == Call(w0, <<"rulerToggleChange", enabled>>)
      w1 == Call([w EXCEPT !.store.focusRulerEnabled = enabled],
                 <<"chrome.storage.local.set", "focusRulerEnabled", enabled>>)
  IN  sendToAllTabs(w1, Msg("FOCUS_RULER_TOGGLE", enabled,
                            [height |-> w1.store.rulerHeight,
                             opacity |-> w1.store.dimOpacity], NoState))

\* heightRange input handler.
heightRangeInput(w0, h) ==
  LET w  == Call(w0, <<"heightRangeInput", h>>)
      w1 == Call([w EXCEPT !.store.rulerHeight = h],
                 <<"chrome.storage.local.set", "rulerHeight", h>>)
  IN  sendToAllTabs(w1, Msg("FOCUS_RULER_UPDATE_SETTINGS", "undefined",
                            [height |-> h, opacity |-> Undef], NoState))

\* ---- content script injection, typography.js ---------------------------------------
Scripts == {"focus-ruler", "visual-filters", "typography"}

Flag(script) ==
  CASE script = "focus-ruler"    -> "__alRulerLoaded"
    [] script = "visual-filters" -> "__alFiltersLoaded"
    [] script = "typography"     -> "__otterTypographyLoaded"

\* Text scales in percent; 100 is the unscaled page.
ScaleVals == {100, 125}
StoredTypography ==
  [dyslexiaFontEnabled : {"true", "undefined"},
   dyslexiaFontFamily : {"OpenDyslexic", "undefined"},
   textScale : {125, Undef}]
NoTypography ==
  [dyslexiaFontEnabled |-> "undefined", dyslexiaFontFamily |-> "undefined",
   textScale |-> Undef]
NoDyslexia == [enabled |-> "undefined", font |-> "undefined"]

TypographyMessages ==
       {[type |-> "TEXT_SCALE_UPDATE", dyslexia |-> NoDyslexia, scale |-> s] :
          s \in ScaleVals}
  \cup {[type |-> "SET_STATE", dyslexia |-> [enabled |-> "true", font |-> "OpenDyslexic"],
         scale |-> Undef],
        [type |-> "SET_STATE", dyslexia |-> [enabled |-> "false", font |-> "default"],
         scale |-> Undef]}

\* The state typography.js and the injection guards read and write.
CurPage ==
  [windowFlags |-> windowFlags, instances |-> instances,
   fontStyles |-> fontStyles, scaleStyles |-> scaleStyles,
   storage |-> storage, callbacks |-> callbacks, trace |-> <<>>]

CommitPage(pg) ==
  /\ windowFlags' = pg.windowFlags
  /\ instances' = pg.instances
  /\ fontStyles' = pg.fontStyles
  /\ scaleStyles' = pg.scaleStyles
  /\ storage' = pg.storage
  /\ callbacks' = pg.callbacks
  /\ trace' = pg.trace
  /\ UNCHANGED <<prog, env, samples, lastBatch, cycles, nEvents, pendingSrc,
                 currentSrc>>
  /\ UNCHANGED <<sys, filters>>

\* textScale && textScale !== 100
Scaled(textScale) == textScale \notin {Undef, 0, 100}

\* data.textScale || 100
ScaleOr100(textScale) == IF textScale \in {Undef, 0} THEN 100 ELSE textScale

\* applyTypography(dyslexiaState, textScale).  The scaling branch appends
\* `style`, a name declared in the block of the font branch only: evaluating it
\* throws a ReferenceError and the new scale element is not appended.
applyTypography(pg0, dyslexiaState, textScale) ==
  LET pg == Call(pg0, <<"applyTypography", dyslexiaState, textScale>>)
      p1 == IF pg.fontStyles = <<>> THEN pg
            ELSE Call([pg EXCEPT !.fontStyles = Tail(@)],
                      <<"remove", "otter-font-override">>)
      p2 == IF dyslexiaState.enabled = "true" /\ dyslexiaState.font # "default"
            THEN Call([p1 EXCEPT !.fontStyles = Append(@, dyslexiaState.font)],
                      <<"appendChild", "otter-font-override">>)
            ELSE p1
      p3 == IF p2.scaleStyles = <<>> THEN p2
            ELSE Call([p2 EXCEPT !.scaleStyles = Tail(@)],
                      <<"remove", "otter-scale-override">>)
  IN  IF Scaled(textScale)
      THEN Call(Call(p3, <<"createElement", "otter-scale-override">>),
                <<"ReferenceError", "style">>)
      ELSE p3

\* chrome.storage.local.get(keys, callback)
storageGet(pg, cb) ==
  Call([pg EXCEPT !.callbacks = Append(@, cb)], <<"chrome.storage.local.get", cb.type>>)

\* The callback of a storage read of typography.js, run with the stored data.
storageCallback(pg, cb, data) ==
  CASE cb.type = "init" ->
         applyTypography(pg,
           [enabled |-> IF data.dyslexiaFontEnabled = "true" THEN "true" ELSE "false",
            font |-> IF data.dyslexiaFontFamily = "undefined"
                     THEN "default" ELSE data.dyslexiaFontFamily],
           ScaleOr100(data.textScale))
    [] cb.type = "SET_STATE" ->
         applyTypography(pg, cb.dyslexia, ScaleOr100(data.textScale))
    [] cb.type = "TEXT_SCALE_UPDATE" ->
         applyTypography(pg,
           [enabled |-> data.dyslexiaFontEnabled, font |-> data.dyslexiaFontFamily],
           cb.scale)

\* The chrome.runtime.onMessage listener of typography.js.
typographyOnMessage(pg, message) ==
  IF message.type \in {"SET_STATE", "TEXT_SCALE_UPDATE"}
  THEN storageGet(Call(pg, <<"typographyOnMessage", message.type>>), message)
  ELSE pg

inject_NoGuard(pg0, script) ==
  LET pg == Call(pg0, <<"inject", script>>)
      p1 == [pg EXCEPT !.windowFlags = @ \cup {Flag(script)},
                       !.instances[script] = IF @ < 2 THEN @ + 1 ELSE @]
  IN  IF script = "typography"
      THEN storageGet(p1, [type |-> "init", dyslexia |-> NoDyslexia, scale |-> Undef])
      ELSE p1

\* The body of a content script: the guard, then the closure with its message
\* listener; typography.js then starts its init().
inject(pg0, script) ==
  LET pg == Call(pg0, <<"inject", script>>)
  IN  IF Flag(script) \in pg.windowFlags THEN pg
      ELSE LET p1 == [pg EXCEPT !.windowFlags = @ \cup {Flag(script)},
                                !.instances[script] = @ + 1]
           IN  IF script = "typography"
               THEN storageGet(p1, [type |-> "init", dyslexia |-> NoDyslexia,
                                    scale |-> Undef])
               ELSE p1

\* ---- visual filters (visual-filters.js) ------------------------------------------
\* A hex colour '#rrggbb' is the sequence of its six hex digits; opacities are
\* counted in hundredths.
DEFAULT_COLOR == <<15, 15, 15, 15, 9, 9>>      \* '#ffff99'
FILTERS_DEFAULT_OPACITY == 15                  \* DEFAULT_OPACITY of visual-filters.js
DEFAULT_MODE == "none"
CVD_MATRICES == {"protanopia", "deuteranopia", "tritanopia"}
\* the modes the inputs name
CvdModes == {mode \in CVD_MATRICES : mode # "deuteranopia"}

Colors == {DEFAULT_COLOR, <<15, 15, 15, 15, 0, 0>>}     \* '#ffff99', '#ffff00'
NoColor == <<>>                                \* color is undefined
TintOpacities == {15, 100}                     \* overlayOpacity is a float 0-1
FilterSettings ==
  [color : Colors \cup {NoColor}, opacity : TintOpacities \cup {Undef},
   mode : CvdModes \cup {"none", "undefined"}]
NoFilterSettings == [color |-> NoColor, opacity |-> Undef, mode |-> "undefined"]
\* The six keys of the script in chrome.storage.local; the tint is stored with
\* its colour and its opacity, or with neither.
Snapshots ==
  {s \in [overlayEnabled : {"true", "false"}, overlayColor : Colors \cup {NoColor},
          overlayOpacity : TintOpacities \cup {Undef},
          darkModeEnabled : {"true", "false"}, cvdEnabled : {"true", "false"},
          cvdMode : CvdModes \cup {"none", "undefined"}] :
     <<s.overlayColor, s.overlayOpacity>> \in
       {<<DEFAULT_COLOR, 15>>, <<<<15, 15, 15, 15, 0, 0>>, 100>>, <<NoColor, Undef>>}}
NoSnapshot ==
  [overlayEnabled |-> "false", overlayColor |-> NoColor, overlayOpacity |-> Undef,
   darkModeEnabled |-> "false", cvdEnabled |-> "false", cvdMode |-> "undefined"]

\* The elements of the document visual-filters.js reads and writes.
EmptyDocument ==
  [tintEls |-> <<>>, darkStyles |-> 0, htmlDark |-> FALSE, rootFilter |-> "",
   svgFilters |-> 0]
CurFilters ==
  [tintEls |-> tintEls, darkStyles |-> darkStyles, htmlDark |-> htmlDark,
   rootFilter |-> rootFilter, svgFilters |-> svgFilters]

\* `rgba(${r}, ${g}, ${b}, ${opacity})`: the four numbers of the string.
hexToRgba(hex, opacity) ==
  <<16 * hex[1] + hex[2], 16 * hex[3] + hex[4], 16 * hex[5] + hex[6], opacity>>

\* What el.style.backgroundColor reads after an rgba() string was assigned to
\* it: the alpha is clamped to [0, 1], and a colour whose alpha is 1 is
\* serialized as rgb(r, g, b), without the alpha.
Serialized(rgba) ==
  LET a == IF rgba[4] > 100 THEN 100 ELSE IF rgba[4] < 0 THEN 0 ELSE rgba[4]
  IN  IF a = 100 THEN <<rgba[1], rgba[2], rgba[3]>>
                 ELSE <<rgba[1], rgba[2], rgba[3], a>>

\* el.style.backgroundColor = value, el the first #accessilens-overlay element
setBackgroundColor(d, value) == [d EXCEPT !.tintEls[1] = Serialized(value)]

\* currentRgba.match(/rgba?\([^)]+,\s*([\d.]+)\)/), then parseFloat of the
\* group: the number before the closing parenthesis, Null without a match.
opacityMatch(currentRgba) ==
  CASE Len(currentRgba) = 4 -> currentRgba[4]
    [] Len(currentRgba) = 3 -> 100 * currentRgba[3]
    [] OTHER -> Null

\* currentRgba.match(/rgba?\((\d+),\s*(\d+),\s*(\d+)/): the first three numbers.
colorMatch(currentRgba) ==
  IF Len(currentRgba) >= 3 THEN SubSeq(currentRgba, 1, 3) ELSE <<>>

overlayEnable(d, settings) ==
  LET color   == IF settings.color = NoColor THEN DEFAULT_COLOR ELSE settings.color
      opacity == IF settings.opacity = Undef THEN FILTERS_DEFAULT_OPACITY
                 ELSE settings.opacity
      el      == IF d.tintEls = <<>> THEN [d EXCEPT !.tintEls = <<NoColor>>] ELSE d
  IN  setBackgroundColor(el, hexToRgba(color, opacity))

overlayDisable(d) ==
  [d EXCEPT !.tintEls = IF @ = <<>> THEN @ ELSE Tail(@)]

overlayUpdate(d, settings) ==
  IF d.tintEls = <<>> THEN d
  ELSE
  LET currentRgba == d.tintEls[1]
  IN  CASE settings.color # NoColor /\ settings.opacity # Undef ->
             setBackgroundColor(d, hexToRgba(settings.color, settings.opacity))
        [] settings.color # NoColor /\ settings.opacity = Undef ->
             setBackgroundColor(d, hexToRgba(settings.color,
               IF opacityMatch(currentRgba) # Null THEN opacityMatch(currentRgba)
               ELSE FILTERS_DEFAULT_OPACITY))
        [] settings.color = NoColor /\ settings.opacity # Undef ->
             IF colorMatch(currentRgba) # <<>>
             THEN setBackgroundColor(d, colorMatch(currentRgba) \o <<settings.opacity>>)
             ELSE d
        [] OTHER -> d

darkModeEnable(d) ==
  [d EXCEPT !.darkStyles = IF @ = 0 THEN 1 ELSE @, !.htmlDark = TRUE]

darkModeDisable_KeepClass(d) ==
  [d EXCEPT !.darkStyles = IF @ = 0 THEN 0 ELSE @ - 1]

darkModeDisable(d) ==
  [d EXCEPT !.darkStyles = IF @ = 0 THEN 0 ELSE @ - 1, !.htmlDark = FALSE]

ensureSvgFilters(d) == [d EXCEPT !.svgFilters = IF @ = 0 THEN 1 ELSE @]

cvdDisable(d) ==
  [d EXCEPT !.rootFilter = "", !.svgFilters = IF @ = 0 THEN 0 ELSE @ - 1]

cvdEnable_KeepOnNone(d, settings) ==
  LET mode == IF settings.mode = "undefined" THEN DEFAULT_MODE ELSE settings.mode
  IN  IF mode = "none" THEN d
      ELSE [ensureSvgFilters(d) EXCEPT !.rootFilter = mode]

cvdEnable(d, settings) ==
  LET mode == IF settings.mode = "undefined" THEN DEFAULT_MODE ELSE settings.mode
  IN  IF mode = "none" THEN cvdDisable(d)
      ELSE [ensureSvgFilters(d) EXCEPT !.rootFilter = mode]

cvdUpdate_NoEnsure(d, settings) ==
  IF settings.mode \in {"undefined", "none"} THEN cvdDisable(d)
  ELSE [d EXCEPT !.rootFilter = settings.mode]

cvdUpdate(d, settings) ==
  IF settings.mode \in {"undefined", "none"} THEN cvdDisable(d)
  ELSE [ensureSvgFilters(d) EXCEPT !.rootFilter = settings.mode]

\* The listener registerMessageListener() adds; `settings` is
\* message.settings || {} and `state` is message.state || {}.
filtersOnMessage(d, m) ==
  CASE m.type = "COLOR_OVERLAY_TOGGLE" ->
         IF m.enabled = "true" THEN overlayEnable(d, m.settings) ELSE overlayDisable(d)
    [] m.type = "COLOR_OVERLAY_UPDATE" -> overlayUpdate(d, m.settings)
    [] m.type = "DARK_MODE_TOGGLE" ->
         IF m.enabled = "true" THEN darkModeEnable(d) ELSE darkModeDisable(d)
    [] m.type = "CVD_FILTER_TOGGLE" ->
         IF m.enabled = "true" THEN cvdEnable(d, m.settings) ELSE cvdDisable(d)
    [] m.type = "CVD_FILTER_UPDATE" -> cvdUpdate(d, m.settings)
    [] m.type = "REAPPLY_STATE" ->
         LET s  == m.state
             d1 == IF s.overlayEnabled = "true"
                   THEN overlayEnable(d, [color |-> s.overlayColor,
                                          opacity |-> s.overlayOpacity,
                                          mode |-> "undefined"])
                   ELSE overlayDisable(d)
             d2 == IF s.darkModeEnabled = "true" THEN darkModeEnable(d1)
                   ELSE darkModeDisable(d1)
         IN  IF s.cvdEnabled = "true"
             THEN cvdEnable(d2, [color |-> NoColor, opacity |-> Undef,
                                 mode |-> s.cvdMode])
             ELSE cvdDisable(d2)
    [] OTHER -> d

\* The body of the try block of init(), `stored` the result of the storage read.
filtersInit(d, stored) ==
  LET d1 == IF stored.overlayEnabled = "true"
            THEN overlayEnable(d, [color |-> stored.overlayColor,
                                   opacity |-> stored.overlayOpacity,
                                   mode |-> "undefined"])
            ELSE d
      d2 == IF stored.darkModeEnabled = "true" THEN darkModeEnable(d1) ELSE d1
  IN  IF stored.cvdEnabled = "true"
      THEN cvdEnable(d2, [color |-> NoColor, opacity |-> Undef,
                          mode |-> stored.cvdMode])
      ELSE d2

FilterMessage(type, enabled, settings, state) ==
  [type |-> type, enabled |-> enabled, settings |-> settings, state |-> state]
NoMessage == FilterMessage("none", "undefined", NoFilterSettings, NoSnapshot)
TintSettings ==
  {s \in FilterSettings : s.mode = "undefined"}
ModeSettings ==
  {s \in FilterSettings : s.color = NoColor /\ s.opacity = Undef}
OverlayMessages ==
       {FilterMessage("COLOR_OVERLAY_TOGGLE", "true", s, NoSnapshot) : s \in TintSettings}
  \cup {FilterMessage("COLOR_OVERLAY_TOGGLE", "false", NoFilterSettings, NoSnapshot)}
  \cup {FilterMessage("COLOR_OVERLAY_UPDATE", "undefined", s, NoSnapshot) :
          s \in TintSettings}
DarkMessages ==
  {FilterMessage("DARK_MODE_TOGGLE", e, NoFilterSettings, NoSnapshot) :
     e \in {"true", "false"}}
CvdMessages ==
       {FilterMessage("CVD_FILTER_TOGGLE", "true", s, NoSnapshot) : s \in ModeSettings}
  \cup {FilterMessage("CVD_FILTER_TOGGLE", "false", NoFilterSettings, NoSnapshot)}
  \cup {FilterMessage("CVD_FILTER_UPDATE", "undefined", s, NoSnapshot) :
          s \in ModeSettings}
ReapplyMessages ==
  {FilterMessage("REAPPLY_STATE", "undefined", NoFilterSettings, s) : s \in Snapshots}
FilterMessages == OverlayMessages \cup DarkMessages \cup CvdMessages \cup ReapplyMessages

\* ---- the state machine ------------------------------------------------------------
Event(type, y, n) == [type |-> type, clientY |-> y, n |-> n]

InitTab ==
  /\ innerWidth = InitialViewport[1]
  /\ innerHeight = InitialViewport[2]
  /\ currentY = InitialViewport[2] \div 2          \* DEFAULT_Y
  /\ shadowHost = Null /\ overlay = Null /\ isEnabled = FALSE
  /\ rafId = Null /\ pendingY = Null
  /\ initDone = FALSE /\ listenerRegistered = FALSE
  /\ overlayStyle = EmptyStyle
  /\ docHosts = {} /\ listeners = {} /\ rafQueue = {}
  /\ eventQueue = <<>>
  /\ trace = <<>> /\ samples = <<>> /\ lastBatch = <<>> /\ cycles = 0
  /\ nEvents = 0 /\ pendingSrc = 0 /\ currentSrc = 0
  \* focus-ruler.js has run; the other content scripts have not yet.
  /\ windowFlags = {Flag("focus-ruler")}
  /\ instances = [s \in Scripts |-> IF s = "focus-ruler" THEN 1 ELSE 0]
  /\ fontStyles = <<>> /\ scaleStyles = <<>>
  /\ storage = NoTypography /\ callbacks = <<>>
  /\ workerTasks = <<>> /\ queries = <<>> /\ inbox = <<>>
  /\ nCommands = 0 /\ nPopup = 0
  /\ initData = store
  \* visual-filters.js has not run yet.
  /\ tintEls = <<>> /\ darkStyles = 0 /\ htmlDark = FALSE
  /\ rootFilter = "" /\ svgFilters = 0
  /\ filtersListener = FALSE
  /\ lastMessage = NoMessage /\ before = EmptyDocument

\* The tab's scripts have just run in an extension whose storage holds the
\* defaults of its installation.
Init == store = DEFAULTS /\ InitTab

\* A handler may allocate one animation frame handle.
HandleAvailable == FreeHandles(Cur) # {}

CountCycle(st) ==
  cycles' = IF isEnabled /\ ~st.isEnabled /\ cycles < MaxCycles
            THEN cycles + 1 ELSE cycles

\* init(): the storage read resolves, then the message listener is registered.
InitResolve(result) ==
  /\ ~initDone
  /\ HandleAvailable
  /\ Commit(initResolved(Call(Call(Cur, <<"init">>),
                               <<"chrome.storage.local.get", result>>), result))
  /\ initDone' = TRUE /\ listenerRegistered' = TRUE
  /\ UNCHANGED <<eventQueue, samples, cycles, nEvents>>
  /\ lastBatch' = <<>>
  /\ UNCHANGED <<sys, filters>>

InitReject_NoListener ==
  /\ ~initDone
  /\ Commit(Call(Call(Cur, <<"init">>), <<"console.debug", "storage read failed">>))
  /\ initDone' = TRUE /\ listenerRegistered' = FALSE
  /\ UNCHANGED <<eventQueue, samples, cycles, nEvents>>
  /\ lastBatch' = <<>>
  /\ UNCHANGED <<sys, filters>>

\* init(): the storage read rejects; the error is logged.
InitReject ==
  /\ ~initDone
  /\ Commit(Call(Call(Cur, <<"init">>), <<"console.debug", "storage read failed">>))
  /\ initDone' = TRUE /\ listenerRegistered' = TRUE
  /\ UNCHANGED <<eventQueue, samples, cycles, nEvents>>
  /\ lastBatch' = <<>>
  /\ UNCHANGED <<sys, filters>>

\* A message arrives on chrome.runtime.onMessage.
Message(m) ==
  /\ listenerRegistered
  /\ HandleAvailable
  /\ LET st == onMessage(Call(Cur, <<"onMessage", m>>), m)
     IN  Commit(st) /\ CountCycle(st)
  /\ UNCHANGED <<initDone, listenerRegistered, eventQueue, samples, nEvents>>
  /\ lastBatch' = <<>>
  /\ UNCHANGED <<sys, filters>>

\* The user moves the pointer: the host queues a mousemove event.
HostPointerMove(y) ==
  /\ nEvents < MaxEvents
  /\ Len(eventQueue) < MaxQueue
  /\ nEvents' = nEvents + 1
  /\ eventQueue' = Append(eventQueue, Event("mousemove", y, nEvents + 1))
  /\ trace' = <<>>
  /\ UNCHANGED <<prog, overlayStyle, docHosts, listeners, rafQueue,
                 innerWidth, innerHeight, samples, cycles, pendingSrc, currentSrc,
                 page>>
  /\ lastBatch' = <<>>
  /\ UNCHANGED <<sys, filters>>

\* The window is resized: the host queues a resize event.
HostResize(vp) ==
  /\ <<innerWidth, innerHeight>> # vp
  /\ Len(eventQueue) < MaxQueue
  /\ innerWidth' = vp[1] /\ innerHeight' = vp[2]
  /\ eventQueue' = Append(eventQueue, Event("resize", 0, 0))
  /\ trace' = <<>>
  /\ UNCHANGED <<prog, overlayStyle, docHosts, listeners, rafQueue,
                 samples, cycles, nEvents, pendingSrc, currentSrc, page>>
  /\ lastBatch' = <<>>
  /\ UNCHANGED <<sys, filters>>

\* The host dispatches the oldest queued event to the listeners window has now.
DispatchEvent ==
  /\ eventQueue # <<>>
  /\ LET e == Head(eventQueue)
         handled == e.type \in listeners
         s0 == Call(Cur, <<"dispatchEvent", e.type>>)
         st == IF ~handled THEN s0
               ELSE IF e.type = "mousemove" THEN onMouseMove(s0, e)
                    ELSE onResize(s0)
     IN  /\ Commit(st)
         /\ samples' = IF handled /\ e.type = "mousemove"
                       THEN Append(samples, e.clientY) ELSE samples
  /\ eventQueue' = Tail(eventQueue)
  /\ UNCHANGED <<initDone, listenerRegistered, cycles, nEvents>>
  /\ lastBatch' = <<>>
  /\ UNCHANGED <<sys, filters>>

\* A display frame: the browser runs a scheduled animation frame callback.
Tick(h) ==
  /\ h \in rafQueue
  /\ LET st == [Cur EXCEPT !.rafQueue = @ \ {h}]
     IN  /\ FreeHandles(st) # {}
         /\ Commit(loop(st))
  /\ samples' = <<>> /\ lastBatch' = samples
  /\ UNCHANGED <<initDone, listenerRegistered, eventQueue, cycles, nEvents>>
  /\ UNCHANGED <<sys, filters>>

Next ==
  \/ \E r \in StorageResults : InitResolve(r)
  \/ InitReject
  \/ \E m \in Messages : Message(m)
  \/ \E y \in PointerYs : HostPointerMove(y)
  \/ \E vp \in Viewports : HostResize(vp)
  \/ DispatchEvent
  \/ \E h \in 1..MaxHandles : Tick(h)

Spec == Init /\ [][Next]_vars

\* The browser runs a scheduled animation frame callback at the next display
\* frame: a callback that stays scheduled is run.
\* The inputs that bear on the frame loop: the commands and stored states that
\* switch the ruler on and off, and pointer events.  Settings values and resize
\* events touch neither pendingY nor isEnabled nor the scheduled callbacks.
LiveMessages ==
  {Msg("FOCUS_RULER_TOGGLE", "true", NoSettings, NoState),
   Msg("FOCUS_RULER_TOGGLE", "false", NoSettings, NoState)}
LiveResults == {r \in StorageResults : r.rulerHeight = Undef /\ r.dimOpacity = Undef}

NextLive ==
  \/ \E r \in LiveResults : InitResolve(r)
  \/ InitReject
  \/ \E m \in LiveMessages : Message(m)
  \/ \E y \in PointerYs : HostPointerMove(y)
  \/ DispatchEvent
  \/ \E h \in 1..MaxHandles : Tick(h)

SpecLive ==
  Init /\ [][NextLive]_vars /\ WF_vars(\E h \in 1..MaxHandles : Tick(h))

\* ---- a browser call of createOverlay throws ----------------------------------------
\* The calls of createOverlay that may throw: the first document.createElement
\* and the final appendChild of the host.
ThrowPoints == {"createElement", "appendChild"}

\* createOverlay when the browser call `at` throws: the statements before it
\* have run, the rest has not.
createOverlayThrows(st0, settings, at) ==
  LET st == Call(st0, <<"createOverlay", settings>>)
      height  == IF settings.height = Undef THEN DEFAULT_HEIGHT ELSE settings.height
      opacity == IF settings.opacity = Undef THEN DEFAULT_OPACITY ELSE settings.opacity
      s0 == IF st.docHosts = {} THEN st
            ELSE Call([st EXCEPT !.docHosts = @ \ {Min(st.docHosts)}],
                      <<"remove", Min(st.docHosts)>>)
      el == Min((1..MaxElems) \ s0.docHosts)
      s1 == Call([s0 EXCEPT !.shadowHost = el, !.overlay = el,
                            !.overlayStyle = EmptyStyle],
                 <<"createElement", el>>)
      s2 == setVar(s1, "--ruler-y", Px(s1.currentY))
      s3 == setVar(s2, "--ruler-height", Px(height))
      s4 == setVar(s3, "--dim-opacity", Str(opacity))
      s5 == setVar(s4, "--vw", Px(s4.innerWidth))
      s6 == setVar(s5, "--vh", Px(s5.innerHeight))
  IN  IF at = "createElement" THEN Call(s0, <<"throw", at>>)
      ELSE Call(s6, <<"throw", at>>)

\* enable() while disabled when createOverlay throws: the exception leaves
\* enable after `isEnabled = true`, before the listeners and startRaf.
enableThrows(st0, settings, at) ==
  LET st == Call(st0, <<"enable", settings>>)
  IN  createOverlayThrows([st EXCEPT !.isEnabled = TRUE], settings, at)

\* A toggle-on message whose enable throws: the listener is left by
\* the exception, before sendResponse.
MessageThrows(m, at) ==
  /\ listenerRegistered /\ ~isEnabled
  /\ m.type = "FOCUS_RULER_TOGGLE" /\ m.enabled = "true"
  /\ Commit(enableThrows(Call(Cur, <<"onMessage", m>>),
                         [height |-> m.settings.height,
                          opacity |-> m.settings.opacity], at))
  /\ UNCHANGED <<initDone, listenerRegistered, eventQueue, samples, nEvents, cycles>>
  /\ lastBatch' = <<>>
  /\ UNCHANGED <<sys, filters>>

\* init() whose enable throws: the catch clause logs the error, then the
\* message listener is registered.
InitResolveThrows(result, at) ==
  /\ ~initDone
  /\ result.focusRulerEnabled = "true"
  /\ LET st == Call(Call(Cur, <<"init">>), <<"chrome.storage.local.get", result>>)
         settings == [height  |-> IF result.rulerHeight = Undef
                                  THEN DEFAULT_HEIGHT ELSE result.rulerHeight,
                      opacity |-> IF result.dimOpacity = Undef
                                  THEN DEFAULT_OPACITY ELSE result.dimOpacity]
     IN  Commit(Call(enableThrows(st, settings, at),
                     <<"console.debug", "storage read failed">>))
  /\ initDone' = TRUE /\ listenerRegistered' = TRUE
  /\ UNCHANGED <<eventQueue, samples, cycles, nEvents>>
  /\ lastBatch' = <<>>
  /\ UNCHANGED <<sys, filters>>

NextFault ==
  \/ \E r \in LiveResults : InitResolve(r)
  \/ InitReject
  \/ \E m \in LiveMessages : Message(m)
  \/ \E y \in PointerYs : HostPointerMove(y)
  \/ DispatchEvent
  \/ \E h \in 1..MaxHandles : Tick(h)
  \/ \E m \in LiveMessages, at \in ThrowPoints : MessageThrows(m, at)
  \/ \E r \in LiveResults, at \in ThrowPoints : InitResolveThrows(r, at)

SpecFault == Init /\ [][NextFault]_vars

\* ---- the extension around the tab ------------------------------------------------
CommitSys(w) ==
  /\ store' = w.store
  /\ workerTasks' = w.workerTasks
  /\ queries' = w.queries
  /\ inbox' = w.inbox
  /\ trace' = w.trace
  /\ UNCHANGED <<prog, env, samples, lastBatch, cycles, nEvents, pendingSrc,
                 currentSrc, page, initData, filters>>

\* The user presses the toggle-focus-ruler shortcut.
Command ==
  /\ nCommands < MaxCommands
  /\ Len(workerTasks) < MaxTasks
  /\ CommitSys(onCommand(CurSys, "toggle-focus-ruler"))
  /\ nCommands' = nCommands + 1
  /\ UNCHANGED nPopup

\* A tab reports a change of its load status.
TabUpdated(tabId, status) ==
  /\ Len(workerTasks) < MaxTasks
  /\ CommitSys(onUpdated(CurSys, tabId, status))
  /\ UNCHANGED <<nCommands, nPopup>>

\* The oldest storage callback of the service worker runs.
WorkerTask ==
  /\ workerTasks # <<>>
  /\ Len(queries) < MaxQueries /\ Len(inbox) < MaxInbox
  /\ LET task == Head(workerTasks)
         w == [CurSys EXCEPT !.workerTasks = Tail(@)]
     IN  CommitSys(IF task.kind = "onCommand"
                   THEN onCommandCallback(w, task.data)
                   ELSE onUpdatedCallback(w, task.tabId, task.data))
  /\ UNCHANGED <<nCommands, nPopup>>

\* The oldest chrome.tabs.query is answered.
QueryResolve(active) ==
  /\ queries # <<>>
  /\ Len(inbox) < MaxInbox
  /\ CommitSys(queryCallback([CurSys EXCEPT !.queries = Tail(@)],
                             Head(queries), active))
  /\ UNCHANGED <<nCommands, nPopup>>

\* The user flips the ruler switch of the popup.
PopupToggle(enabled) ==
  /\ nPopup < MaxPopup
  /\ Len(queries) < MaxQueries
  /\ CommitSys(rulerToggleChange(CurSys, enabled))
  /\ nPopup' = nPopup + 1
  /\ UNCHANGED nCommands

\* The user moves the thickness slider of the popup.
PopupHeight(h) ==
  /\ nPopup < MaxPopup
  /\ Len(queries) < MaxQueries
  /\ h # store.rulerHeight
  /\ CommitSys(heightRangeInput(CurSys, h))
  /\ nPopup' = nPopup + 1
  /\ UNCHANGED nCommands

\* The storage read of the tab's init() resolves.
TabInit == InitResolve(RulerKeys(initData))

\* The oldest message sent to the tab arrives: the listener handles it, or it
\* is lost when init() has not registered the listener yet.
TabDeliver ==
  /\ inbox # <<>>
  /\ HandleAvailable
  /\ LET m  == Head(inbox)
         st == IF listenerRegistered
               THEN onMessage(Call(Cur, <<"onMessage", m>>), m)
               ELSE Call(Cur, <<"noReceiver", m>>)
     IN  Commit(st) /\ CountCycle(st)
  /\ inbox' = Tail(inbox)
  /\ lastBatch' = <<>>
  /\ UNCHANGED <<initDone, listenerRegistered, eventQueue, samples, nEvents,
                 store, initData, workerTasks, queries, nCommands, nPopup,
                 filters>>

\* The service worker, with the tab its messages go to.
NextWorker ==
  \/ Command
  \/ \E tabId \in Tabs, status \in {"loading", "complete"} : TabUpdated(tabId, status)
  \/ WorkerTask
  \/ \E active \in Tabs \cup {NoTab} : QueryResolve(active)
  \/ TabInit
  \/ TabDeliver

InitWorker ==
  /\ store \in {v \in StoreVals : v.rulerHeight = DEFAULT_HEIGHT}
  /\ InitTab

SpecWorker == InitWorker /\ [][NextWorker]_vars

\* Popup, service worker and tab.
NextSystem ==
  \/ Command
  \/ TabUpdated(RulerTab, "complete")
  \/ WorkerTask
  \/ \E active \in {RulerTab, NoTab} : QueryResolve(active)
  \/ \E enabled \in {"true", "false"} : PopupToggle(enabled)
  \/ \E h \in {DEFAULT_HEIGHT} \cup HeightVals : PopupHeight(h)
  \/ TabInit
  \/ TabDeliver

InitSystem ==
  /\ store \in {v \in StoreVals : v.others = {}}
  /\ InitTab

SpecSystem == InitSystem /\ [][NextSystem]_vars

\* ---- the page: injection and typography ------------------------------------------
\* The extension injects a content script into the page (again).
Inject(script) ==
  /\ Len(callbacks) < MaxCallbacks
  /\ CommitPage(inject(CurPage, script))

\* The popup writes the typography settings.
StorageSet(v) ==
  /\ storage # v
  /\ storage' = v
  /\ trace' = <<>>
  /\ UNCHANGED <<prog, env, samples, lastBatch, cycles, nEvents, pendingSrc,
                 currentSrc, windowFlags, instances, fontStyles, scaleStyles,
                 callbacks>>
  /\ UNCHANGED <<sys, filters>>

\* A message is delivered to every listener typography.js has registered.
TypographyMessage(m) ==
  /\ instances["typography"] >= 1
  /\ Len(callbacks) + instances["typography"] <= MaxCallbacks
  /\ CommitPage(IF instances["typography"] = 1
                THEN typographyOnMessage(CurPage, m)
                ELSE typographyOnMessage(typographyOnMessage(CurPage, m), m))

\* The oldest pending storage read completes and its callback runs.
StorageCallback ==
  /\ callbacks # <<>>
  /\ CommitPage(storageCallback(
                  Call([CurPage EXCEPT !.callbacks = Tail(@)],
                       <<"storageCallback", Head(callbacks).type>>),
                  Head(callbacks), storage))

NextPage ==
  \/ \E script \in Scripts : Inject(script)
  \/ \E v \in StoredTypography : StorageSet(v)
  \/ \E m \in TypographyMessages : TypographyMessage(m)
  \/ StorageCallback

SpecPage == Init /\ [][NextPage]_vars

\* ---- the page: visual filters ---------------------------------------------------
CommitFilters(d, m) ==
  /\ tintEls' = d.tintEls
  /\ darkStyles' = d.darkStyles
  /\ htmlDark' = d.htmlDark
  /\ rootFilter' = d.rootFilter
  /\ svgFilters' = d.svgFilters
  /\ lastMessage' = m
  /\ before' = CurFilters
  /\ UNCHANGED <<prog, env, hist, page, sys>>

\* visual-filters.js runs: the storage read of init() resolves, the stored
\* features are enabled and the listener is registered.
FiltersInitResolve(stored) ==
  /\ ~filtersListener
  /\ filtersListener' = TRUE
  /\ CommitFilters(filtersInit(CurFilters, stored),
                   FilterMessage("init", "undefined", NoFilterSettings, stored))

\* The storage read of init() rejects: only the listener is registered.
FiltersInitReject ==
  /\ ~filtersListener
  /\ filtersListener' = TRUE
  /\ CommitFilters(CurFilters,
                   FilterMessage("console.debug", "undefined", NoFilterSettings,
                                 NoSnapshot))

\* A message from the popup or the service worker reaches the listener.
FiltersMessage(m) ==
  /\ filtersListener
  /\ CommitFilters(filtersOnMessage(CurFilters, m), m)
  /\ UNCHANGED filtersListener

NextFilters ==
  \/ \E stored \in Snapshots : FiltersInitResolve(stored)
  \/ FiltersInitReject
  \/ \E m \in FilterMessages : FiltersMessage(m)

SpecFilters == Init /\ [][NextFilters]_vars

\* ---- vocabulary of the properties ---------------------------------------------------
\* The function `name` was entered, or the browser function `name` was called.
Called(t, name) == \E i \in 1..Len(t) : t[i][1] = name

\* The values written to the custom property `name`, in order.
Writes(t, name) ==
  SelectSeq(t, LAMBDA c : c[1] = "setProperty" /\ c[2] = name)

SurfaceExists == docHosts # {}
ListenersAttached == listeners # {}

\* What the controller owns: module state, surface, listeners, frame callbacks.
Controller(st) ==
  <<st.shadowHost, st.overlay, st.isEnabled, st.rafId, st.pendingY, st.currentY,
    st.overlayStyle, st.docHosts, st.listeners, st.rafQueue>>

Surface == <<shadowHost, overlay, overlayStyle, docHosts>>

\* C1: between handlers the shadow host is in the document iff isEnabled, and
\* the mousemove and resize listeners are attached iff the surface exists.
C1_SurfaceIffEnabled ==
  /\ SurfaceExists <=> isEnabled
  /\ isEnabled => shadowHost # Null /\ overlay # Null /\ docHosts = {shadowHost}
  /\ ~isEnabled => shadowHost = Null /\ overlay = Null
  /\ SurfaceExists => listeners = {"mousemove", "resize"}
  /\ ~SurfaceExists => listeners = {}

C1_Witness ==
  /\ isEnabled /\ SurfaceExists /\ cycles >= 1
  /\ listeners = {"mousemove", "resize"}

\* C2: after any number of enable->disable cycles no listener of the ruler is
\* attached and no frame callback is scheduled.
C2_NoLeak ==
  ~isEnabled => Cardinality(listeners) = 0 /\ Cardinality(rafQueue) = 0

C2_Witness ==
  ~isEnabled /\ cycles = MaxCycles /\ Called(trace, "disable") /\ nEvents > 0

\* C3: while disabled no tick runs and no pointer sample is processed:
\* currentY and pendingY keep their values, and the surface stays away until
\* the next enable, also for an event the host had queued before disable ran.
C3_DisableCancels ==
  [][ ~isEnabled =>
        /\ ~Called(trace', "loop")
        /\ ~Called(trace', "onMouseMove")
        /\ currentY' = currentY /\ pendingY' = pendingY
        /\ ~isEnabled' => Surface' = Surface /\ ~SurfaceExists' ]_vars

\* A mousemove event was dispatched after a disable.
C3_Witness ==
  /\ ~isEnabled /\ cycles >= 1
  /\ trace = << <<"dispatchEvent", "mousemove">> >>

\* C4: a tick that follows pointer samples y1..yk commits yk: currentY and the
\* surface position are yk, the only position written; handling a sample writes
\* nothing to the surface.
C4_LastSampleWins ==
  /\ (Called(trace, "loop") /\ lastBatch # <<>>) =>
        /\ currentY = lastBatch[Len(lastBatch)]
        /\ overlayStyle["--ruler-y"] = Px(lastBatch[Len(lastBatch)])
        /\ \A i \in 1..Len(trace) :
             (trace[i][1] = "setProperty" /\ trace[i][2] = "--ruler-y")
               => trace[i][3] = Px(lastBatch[Len(lastBatch)])
  /\ Called(trace, "onMouseMove") => ~Called(trace, "setProperty")

C4_Witness ==
  /\ Called(trace, "loop") /\ Len(lastBatch) >= 2
  /\ lastBatch[1] # lastBatch[Len(lastBatch)]
  /\ currentY = lastBatch[Len(lastBatch)]

\* C5: a tick while enabled writes the position exactly once when a sample
\* arrived since the previous tick and not at all otherwise; in the latter case
\* currentY and the surface are unchanged; either way the loop reschedules.
C5_OneWritePerTick ==
  [][ (isEnabled /\ Called(trace', "loop")) =>
        /\ samples # <<>> => Len(Writes(trace', "--ruler-y")) = 1
        /\ samples = <<>> =>
             /\ ~Called(trace', "setProperty")
             /\ currentY' = currentY /\ Surface' = Surface
        /\ Called(trace', "requestAnimationFrame")
        /\ Cardinality(rafQueue') = 1 ]_vars

\* A tick with nothing to commit, after a tick that committed.
C5_Witness ==
  /\ Called(trace, "loop") /\ lastBatch = <<>> /\ currentSrc > 0
  /\ ~Called(trace, "setProperty") /\ rafQueue # {}

\* C6: at most one frame callback is scheduled at any time, and an enable while
\* the loop is running schedules nothing.
C6_SingleCallback ==
  /\ [](Cardinality(rafQueue) <= 1)
  /\ [][ (isEnabled /\ Called(trace', "enable")) =>
           /\ rafQueue' = rafQueue
           /\ ~Called(trace', "requestAnimationFrame") ]_vars

\* An enable while running, after the ruler was disabled and enabled again.
C6_Witness ==
  /\ cycles >= 1 /\ Called(trace, "enable") /\ ~Called(trace, "createOverlay")
  /\ Cardinality(rafQueue) = 1

\* C7: only a tick clears pendingY, in the step in which currentY takes its
\* value; nothing else clears pendingY or writes currentY; a pending sample
\* comes from a later pointer event than the one currentY was taken from.
C7_PendingNewer ==
  /\ [](pendingY # Null => pendingSrc > currentSrc)
  /\ [][ /\ (pendingY # Null /\ pendingY' = Null) =>
              Called(trace', "loop") /\ currentY' = pendingY
         /\ (currentY' # currentY \/ currentSrc' # currentSrc) =>
              /\ Called(trace', "loop")
              /\ currentY' = pendingY /\ currentSrc' = pendingSrc
              /\ pendingY' = Null ]_vars

\* A sample is pending after an earlier one was committed.
C7_Witness == pendingY # Null /\ currentSrc > 0 /\ pendingSrc > currentSrc

\* C8: from any state enable(s) twice gives the controller and surface state
\* of enable(s) once, and disable() while disabled changes nothing.
C8_Idempotent ==
  /\ \A s \in SettingsVals :
       Controller(enable(enable(Cur, s), s)) = Controller(enable(Cur, s))
  /\ ~isEnabled => Controller(disable(Cur)) = Controller(Cur)

\* An enable carrying both settings that found the ruler enabled.
C8_Witness ==
  /\ isEnabled /\ Called(trace, "enable") /\ ~Called(trace, "createOverlay")
  /\ Len(Writes(trace, "--ruler-height")) = 1
  /\ Len(Writes(trace, "--dim-opacity")) = 1

\* The argument of the first call of `name`.
Arg(t, name) == t[CHOOSE i \in 1..Len(t) : t[i][1] = name][2]

\* A style with the fields a settings object carries written over it.
Merged(style, s) ==
  [style EXCEPT !["--ruler-height"] = IF s.height # Undef THEN Px(s.height) ELSE @,
                !["--dim-opacity"]  = IF s.opacity # Undef THEN Str(s.opacity) ELSE @]

\* Nothing but the surface's custom properties changes, and nothing is created.
OnlyStyleChanges ==
  /\ shadowHost' = shadowHost /\ overlay' = overlay /\ docHosts' = docHosts
  /\ listeners' = listeners /\ rafQueue' = rafQueue /\ rafId' = rafId
  /\ isEnabled' = isEnabled /\ currentY' = currentY /\ pendingY' = pendingY
  /\ ~Called(trace', "createOverlay") /\ ~Called(trace', "createElement")
  /\ ~Called(trace', "addEventListener")
  /\ ~Called(trace', "requestAnimationFrame")

\* C9: enable(settings) while enabled writes the settings it carries to the
\* existing surface and does nothing else: no surface, listener or frame
\* callback is created, and currentY and pendingY keep their values.
C9_EnableWhileEnabled ==
  [][ (isEnabled /\ Called(trace', "enable")) =>
        /\ OnlyStyleChanges
        /\ overlayStyle' = Merged(overlayStyle, Arg(trace', "enable")) ]_vars

\* An enable carrying a thickness only, on a surface with a non-default intensity.
C9_Witness ==
  /\ isEnabled /\ Called(trace, "enable") /\ ~Called(trace, "createOverlay")
  /\ Len(Writes(trace, "--ruler-height")) = 1
  /\ Len(Writes(trace, "--dim-opacity")) = 0
  /\ overlayStyle["--dim-opacity"] # Str(DEFAULT_OPACITY)

\* The last step handled a FOCUS_RULER_UPDATE_SETTINGS message.
UpdateHandled(t) ==
  /\ t # <<>> /\ t[1][1] = "onMessage"
  /\ t[1][2].type = "FOCUS_RULER_UPDATE_SETTINGS"

\* C10: a settings update while enabled changes exactly the custom properties
\* of the fields it carries; position, viewport, enabled flag, currentY and
\* pendingY are untouched and the surface is not re-created.
C10_SettingsMerge ==
  [][ (isEnabled /\ UpdateHandled(trace')) =>
        /\ OnlyStyleChanges
        /\ overlayStyle' = Merged(overlayStyle, trace'[1][2].settings) ]_vars

\* An update carrying an intensity only, on a surface with a non-default thickness.
C10_Witness ==
  /\ isEnabled /\ UpdateHandled(trace)
  /\ trace[1][2].settings.height = Undef /\ trace[1][2].settings.opacity # Undef
  /\ overlayStyle["--ruler-height"] # Px(DEFAULT_HEIGHT)
  /\ overlayStyle["--dim-opacity"] = Str(trace[1][2].settings.opacity)

\* ---- further vocabulary ---------------------------------------------------------------
ToggleOn(s) == Msg("FOCUS_RULER_TOGGLE", "true", s, NoState)
ToggleOff == Msg("FOCUS_RULER_TOGGLE", "false", NoSettings, NoState)
Update(s) == Msg("FOCUS_RULER_UPDATE_SETTINGS", "undefined", s, NoState)
GetState == Msg("FOCUS_RULER_GET_STATE", "undefined", NoSettings, NoState)

\* The last step handled a message of this type.
Handled(t, type) ==
  t # <<>> /\ t[1][1] = "onMessage" /\ t[1][2].type = type

\* The custom properties a settings object carries, as the surface shows them.
Shows(style, s) ==
  /\ s.height # Undef => style["--ruler-height"] = Px(s.height)
  /\ s.opacity # Undef => style["--dim-opacity"] = Str(s.opacity)

\* C11: thickness and intensity are retained while disabled: an update received
\* while disabled is used by the next enable that does not carry the field, and
\* the values on the surface before a disable are on the surface the next
\* enable without settings creates.
C11_Retained ==
  /\ (listenerRegistered /\ ~isEnabled) =>
       \A s \in SettingsVals :
         Shows(onMessage(onMessage(Cur, Update(s)), ToggleOn(NoSettings)).overlayStyle, s)
  /\ (listenerRegistered /\ isEnabled) =>
       LET again == onMessage(onMessage(Cur, ToggleOff), ToggleOn(NoSettings))
       IN  /\ again.overlayStyle["--ruler-height"] = overlayStyle["--ruler-height"]
           /\ again.overlayStyle["--dim-opacity"] = overlayStyle["--dim-opacity"]

\* C12: after REAPPLY_STATE isEnabled is the snapshot's flag; with the flag set
\* on a disabled controller the surface exists with the snapshot's thickness and
\* intensity; with the flag unset surface, listeners and frame callback are gone.
C12_Reapply ==
  [][ Handled(trace', "REAPPLY_STATE") =>
        LET s == trace'[1][2].state
            on == s.focusRulerEnabled = "true"
        IN  /\ isEnabled' = on
            /\ (on /\ ~isEnabled) =>
                 /\ SurfaceExists' /\ docHosts' = {shadowHost'}
                 /\ Shows(overlayStyle', [height |-> s.rulerHeight,
                                          opacity |-> s.dimOpacity])
            /\ ~on => /\ ~SurfaceExists' /\ shadowHost' = Null
                      /\ listeners' = {} /\ rafQueue' = {} ]_vars

\* A snapshot with thickness 60 and intensity 0.3 was reapplied on a disabled
\* controller.
C12_Witness ==
  /\ Handled(trace, "REAPPLY_STATE") /\ Called(trace, "createOverlay")
  /\ isEnabled /\ cycles >= 1
  /\ overlayStyle["--ruler-height"] = Px(60)
  /\ overlayStyle["--dim-opacity"] = Str(30)

\* C13: get-state answers with the enabled flag and the committed currentY,
\* not the pending sample, and changes nothing; until a tick commits a sample
\* currentY is half the viewport height the script was loaded with.
C13_GetState ==
  /\ [](currentSrc = 0 => currentY = InitialViewport[2] \div 2)
  /\ [][ Handled(trace', "FOCUS_RULER_GET_STATE") =>
           /\ trace'[Len(trace')] = <<"sendResponse", <<"ok", isEnabled, currentY>>>>
           /\ Controller(Cur)' = Controller(Cur)
           /\ <<innerWidth, innerHeight, eventQueue>>' =
                <<innerWidth, innerHeight, eventQueue>> ]_vars

\* get-state was answered with a committed 120 while another sample was pending.
C13_Witness ==
  /\ Handled(trace, "FOCUS_RULER_GET_STATE")
  /\ trace[Len(trace)] = <<"sendResponse", <<"ok", TRUE, 120>>>>
  /\ pendingY # Null /\ pendingY # currentY

\* C14: when the storage read of init fails the error is caught: the controller
\* is disabled with no surface, listener or frame callback, and the message
\* listener is registered, so that a toggle-on then enables the ruler.
C14_ReadFailure ==
  Called(trace, "console.debug") =>
    /\ initDone /\ ~isEnabled /\ ~SurfaceExists
    /\ shadowHost = Null /\ overlay = Null
    /\ listeners = {} /\ rafQueue = {} /\ rafId = Null
    /\ listenerRegistered
    /\ \A s \in SettingsVals :
         LET on == onMessage(Cur, ToggleOn(s))
         IN  /\ on.isEnabled /\ on.docHosts = {on.shadowHost}
             /\ on.listeners = {"mousemove", "resize"}
             /\ Cardinality(on.rafQueue) = 1

C14_Witness ==
  /\ trace = << <<"init">>, <<"console.debug", "storage read failed">> >>
  /\ listenerRegistered /\ ~isEnabled

\* C17: after init the ruler is enabled iff the stored flag is true, and the
\* surface shows the stored thickness and intensity, 40 and 0.75 where none is
\* stored.
C17_InitFromStorage ==
  Called(trace, "chrome.storage.local.get") =>
    LET r  == Arg(trace, "chrome.storage.local.get")
        on == r.focusRulerEnabled = "true"
    IN  /\ isEnabled = on /\ SurfaceExists = on
        /\ on => /\ overlayStyle["--ruler-height"] =
                      Px(IF r.rulerHeight = Undef THEN 40 ELSE r.rulerHeight)
                 /\ overlayStyle["--dim-opacity"] =
                      Str(IF r.dimOpacity = Undef THEN 75 ELSE r.dimOpacity)
                 /\ overlayStyle["--ruler-y"] = Px(InitialViewport[2] \div 2)

\* Enabled from storage with a stored thickness and no stored intensity.
C17_Witness ==
  /\ Called(trace, "chrome.storage.local.get") /\ isEnabled
  /\ Arg(trace, "chrome.storage.local.get").rulerHeight = 60
  /\ Arg(trace, "chrome.storage.local.get").dimOpacity = Undef
  /\ overlayStyle["--ruler-height"] = Px(60)
  /\ overlayStyle["--dim-opacity"] = Str(75)

\* The lifecycle functions a command handler calls itself: enable, disable, or
\* an applySettings that is not the one enable makes when the ruler is enabled
\* already.
HandlerCalls(t) ==
  {i \in 1..Len(t) :
     \/ t[i][1] \in {"enable", "disable"}
     \/ t[i][1] = "applySettings" /\ t[i-1][1] # "enable"}

Acks(t) == {i \in 1..Len(t) : t[i][1] = "sendResponse"}

\* What the command asks for.
Wanted(m) ==
  CASE m.type = "FOCUS_RULER_TOGGLE" ->
         IF m.enabled = "true" THEN "enable" ELSE "disable"
    [] m.type = "REAPPLY_STATE" ->
         IF m.state.focusRulerEnabled = "true" THEN "enable" ELSE "disable"
    [] m.type = "FOCUS_RULER_UPDATE_SETTINGS" -> "applySettings"
    [] OTHER -> "read"

\* C15: a command is handled by one lifecycle call (none for get-state, which
\* reads the state) and acknowledged once, in the same step, after every effect
\* of that call.
C15_OneCallOneAck ==
  (trace # <<>> /\ trace[1][1] = "onMessage") =>
    LET m == trace[1][2] IN
    /\ Acks(trace) = {Len(trace)}
    /\ IF Wanted(m) = "read"
       THEN /\ HandlerCalls(trace) = {} /\ Len(trace) = 2
            /\ trace[2][2] = stateResponse(Cur)
       ELSE /\ HandlerCalls(trace) = {2}
            /\ trace[2][1] = Wanted(m)

\* A toggle-on that found the ruler enabled: enable, its applySettings and the
\* writes come before the acknowledgement.
C15_Witness ==
  /\ Handled(trace, "FOCUS_RULER_TOGGLE")
  /\ Called(trace, "applySettings") /\ Called(trace, "setProperty")
  /\ Acks(trace) = {Len(trace)} /\ Len(trace) >= 5

\* C16: the document holds at most one ruler host, the one the controller
\* refers to; disable followed by enable leaves one host, one pair of window
\* listeners and one scheduled frame callback.
C16_OneHost ==
  /\ Cardinality(docHosts) <= 1
  /\ docHosts # {} => isEnabled /\ docHosts = {shadowHost}
  /\ isEnabled =>
       \A s \in SettingsVals :
         LET again == enable(disable(Cur), s)
         IN  /\ again.docHosts = {again.shadowHost}
             /\ again.listeners = {"mousemove", "resize"}
             /\ Cardinality(again.rafQueue) = 1
             /\ again.rafQueue = {again.rafId}

\* Enabled again by a command after a disable.
C16_Witness ==
  /\ cycles >= 1 /\ isEnabled /\ Called(trace, "createOverlay")
  /\ Called(trace, "onMessage") /\ docHosts = {shadowHost}

\* C18: with frames firing, a sample held in pendingY while the ruler is enabled
\* is committed to currentY and written to the surface, unless a newer sample
\* replaces it or the ruler is disabled first; pendingY is given up only to a
\* newer sample or to the commit.
C18_EventuallyCommitted ==
  /\ (isEnabled /\ pendingY # Null) ~> (~isEnabled \/ pendingY = Null)
  /\ [][ (pendingSrc # 0 /\ pendingSrc' # pendingSrc) =>
            \/ pendingSrc' > pendingSrc
            \/ /\ Called(trace', "loop") /\ currentSrc' = pendingSrc
               /\ currentY' = pendingY /\ pendingY' = Null
               /\ overlayStyle'["--ruler-y"] = Px(pendingY) ]_vars

\* The second sample was committed by a tick after the first one had been.
C18_Witness ==
  /\ Called(trace, "loop") /\ Called(trace, "setProperty")
  /\ currentSrc = MaxEvents /\ pendingY = Null /\ isEnabled
  /\ overlayStyle["--ruler-y"] = Px(currentY)

\* C19: a content script's body runs past its guard once per page: a further
\* injection finds the flag set and changes nothing, so there is one closure,
\* with one command listener, per feature.
C19_InjectOnce ==
  /\ [](\A s \in Scripts :
          /\ instances[s] <= 1
          /\ instances[s] = 1 <=> Flag(s) \in windowFlags)
  /\ [][ \A s \in Scripts :
           (Called(trace', "inject") /\ trace'[1][2] = s /\ Flag(s) \in windowFlags)
             => /\ Len(trace') = 1
                /\ UNCHANGED <<prog, env, page>> ]_vars

\* typography.js injected again after its first run has applied a font.
C19_Witness ==
  /\ Called(trace, "inject") /\ trace[1][2] = "typography" /\ Len(trace) = 1
  /\ instances["typography"] = 1 /\ fontStyles # <<>>

\* C20: after applyTypography has run with a text scale s, no error was thrown
\* and the document holds one scale-override element for s if s is not 100 and
\* none if it is.
C20_TextScale ==
  Called(trace, "applyTypography") =>
    LET s == trace[CHOOSE i \in 1..Len(trace) : trace[i][1] = "applyTypography"][3]
    IN  /\ ~Called(trace, "ReferenceError")
        /\ scaleStyles = IF s # 100 THEN <<s>> ELSE <<>>

\* C22: while the surface exists the position it shows is currentY.
C22_ShownIsCurrent ==
  SurfaceExists => overlayStyle["--ruler-y"] = Px(currentY)

\* A surface created after a sample had been committed shows that sample.
C22_Witness ==
  /\ SurfaceExists /\ Called(trace, "createOverlay") /\ currentSrc >= 1
  /\ currentY # InitialViewport[2] \div 2
  /\ overlayStyle["--ruler-y"] = Px(currentY)

\* The first tick after the controller state st: the callback st.rafId runs.
FirstTick(st) == loop([st EXCEPT !.rafQueue = @ \ {st.rafId}])

\* C23, as claimed: a sample pending when disable() runs is dropped, so that
\* with no pointer event after the next enable() its first tick leaves currentY
\* as it was.
C23_Discarded ==
  (isEnabled /\ pendingY # Null) =>
    \A s \in SettingsVals :
      FirstTick(enable(disable(Cur), s)).currentY = currentY

\* C23, amended: a sample pending when disable() runs is kept, and with no
\* pointer event after the next enable() its first tick commits that sample to
\* currentY and to the surface.
C23_Kept ==
  (isEnabled /\ pendingY # Null) =>
    /\ disable(Cur).pendingY = pendingY
    /\ \A s \in SettingsVals :
         LET on == enable(disable(Cur), s)
             t  == FirstTick(on)
         IN  /\ on.pendingY = pendingY /\ on.currentY = currentY
             /\ t.currentY = pendingY /\ t.pendingY = Null
             /\ t.overlayStyle["--ruler-y"] = Px(pendingY)

\* The ruler was enabled again with the sample of before the disable pending:
\* no pointer event is handled while the listeners are detached.
C23_Witness ==
  /\ isEnabled /\ cycles >= 1
  /\ Called(trace, "enable") /\ Called(trace, "createOverlay")
  /\ pendingY # Null /\ pendingY # currentY

\* C25: onResize writes the window's size to --vw and --vh of the surface and
\* changes nothing else; while disabled no resize listener is attached and the
\* handler would have no effect.
C25_ResizeOnlyViewport ==
  LET r == onResize(Cur) IN
  /\ isEnabled =>
       [r EXCEPT !.trace = <<>>] =
         [Cur EXCEPT !.overlayStyle = [overlayStyle EXCEPT !["--vw"] = Px(innerWidth),
                                                            !["--vh"] = Px(innerHeight)]]
  /\ ~isEnabled => "resize" \notin listeners /\ [r EXCEPT !.trace = <<>>] = Cur
  /\ Called(trace, "onResize") =>
       /\ isEnabled
       /\ overlayStyle["--vw"] = Px(innerWidth) /\ overlayStyle["--vh"] = Px(innerHeight)
       /\ \A i \in 1..Len(trace) :
            trace[i][1] = "setProperty" => trace[i][2] \in {"--vw", "--vh"}

\* A resize handled while a sample was pending.
C25_Witness ==
  /\ Called(trace, "onResize") /\ isEnabled /\ pendingY # Null
  /\ overlayStyle["--vw"] = Px(1024) /\ overlayStyle["--vh"] = Px(600)

\* C24: when createOverlay throws inside enable() the controller is left
\* disabled, with no listener and no frame callback, and a later enable()
\* creates the surface.
C24_FailedEnable ==
  Called(trace, "throw") =>
    /\ ~isEnabled /\ listeners = {} /\ rafQueue = {}
    /\ \A s \in SettingsVals :
         LET on == enable(Cur, s)
         IN  on.isEnabled /\ on.docHosts # {} /\ on.docHosts = {on.shadowHost}

\* The messages the last step sent with chrome.tabs.sendMessage.
Sends(t) == SelectSeq(t, LAMBDA c : c[1] = "sendMessage")

\* No callback, query or message of the extension is outstanding.
Quiescent == workerTasks = <<>> /\ queries = <<>> /\ inbox = <<>>

\* C21: a tab update with status 'complete' makes the service worker read the
\* stored state; the callback sends that tab one REAPPLY_STATE carrying the
\* state read if a feature flag is set in it, and nothing otherwise; an update
\* with another status reads and sends nothing.
C21_ReapplyOnComplete ==
  /\ Called(trace, "onUpdated") =>
       LET tabId == trace[1][2]
           status == trace[1][3]
       IN  /\ Sends(trace) = <<>>
           /\ Called(trace, "chrome.storage.local.get") <=> status = "complete"
           /\ status = "complete" =>
                /\ workerTasks[Len(workerTasks)].data = store
                /\ workerTasks[Len(workerTasks)].tabId = tabId
           /\ status # "complete" => Len(trace) = 1
  /\ Called(trace, "onUpdatedCallback") =>
       LET tabId == trace[1][2]
           stored == trace[1][3]
       IN  IF stored.focusRulerEnabled = "true" \/ stored.others \cap ActiveKeys # {}
           THEN Sends(trace) =
                  << <<"sendMessage", tabId,
                       Msg("REAPPLY_STATE", "undefined", NoSettings, stored)>> >>
           ELSE Sends(trace) = <<>>

\* The other tab is sent the state because of a flag that is not the ruler's.
C21_Witness ==
  /\ Called(trace, "onUpdatedCallback") /\ Len(Sends(trace)) = 1
  /\ trace[1][2] = 2
  /\ trace[1][3].focusRulerEnabled = "false" /\ trace[1][3].others = {"ttsEnabled"}

\* C26: when the keyboard commands issued so far have all completed, the
\* stored flag has been flipped once per command, and the flag the last
\* command broadcast is the stored one.
C26_FlipPerCommand ==
  (workerTasks = <<>> /\ queries = <<>>) =>
    /\ store.focusRulerEnabled =
         IF nCommands % 2 = 0 THEN initData.focusRulerEnabled
         ELSE Not(initData.focusRulerEnabled)
    /\ (Sends(trace) # <<>> /\ Sends(trace)[1][3].type = "FOCUS_RULER_TOGGLE") =>
         Sends(trace)[1][3].enabled = store.focusRulerEnabled

\* C27: a surface created while nothing is outstanding, with the persisted
\* values as they were when the page was loaded, has the persisted rulerHeight
\* and dimOpacity as its thickness and intensity.
C27_SurfaceUsesPersisted ==
  (Called(trace, "createOverlay") /\ Quiescent /\ nPopup = 0) =>
    /\ overlayStyle["--ruler-height"] = Px(store.rulerHeight)
    /\ overlayStyle["--dim-opacity"] = Str(store.dimOpacity)

\* C28: once the popup's toggle, the tab's init and every message in flight
\* have completed, isEnabled is the persisted flag.
C28_AgreesWithStorage ==
  (Quiescent /\ initDone /\ nPopup >= 1 /\ nCommands = 0) =>
    (isEnabled <=> store.focusRulerEnabled = "true")

\* ---- visual filters: vocabulary ---------------------------------------------------
\* The colour and the opacity a serialized backgroundColor stands for.
TintColor(bg) == SubSeq(bg, 1, 3)
TintOpacity(bg) == IF Len(bg) = 4 THEN bg[4] ELSE 100
Rgb(hex) == SubSeq(hexToRgba(hex, 0), 1, 3)
Reapplied == lastMessage.type = "REAPPLY_STATE"
TintShown == tintEls # <<>>
DarkShown == darkStyles >= 1 /\ htmlDark
DarkAbsent == darkStyles = 0 /\ ~htmlDark
CvdApplied == rootFilter # "" /\ svgFilters >= 1
CvdAbsent == rootFilter = "" /\ svgFilters = 0

\* C29: after REAPPLY_STATE was handled, whatever the document held before, the
\* tint overlay exists iff the snapshot has overlayEnabled, the dark-mode style
\* and the class on <html> are present iff it has darkModeEnabled, and the CVD
\* filter is applied (with the mode of the snapshot) iff it has cvdEnabled and
\* a cvdMode that names a mode other than 'none'.
C29_ReapplyMatches ==
  Reapplied =>
    LET s == lastMessage.state
        wantCvd == s.cvdEnabled = "true" /\ s.cvdMode \notin {"none", "undefined"}
    IN  /\ TintShown <=> s.overlayEnabled = "true"
        /\ IF s.darkModeEnabled = "true" THEN DarkShown ELSE DarkAbsent
        /\ IF wantCvd THEN CvdApplied /\ rootFilter = s.cvdMode ELSE CvdAbsent

\* A reapply that removed a tint and the dark mode and replaced one CVD mode by
\* another.
C29_Witness ==
  /\ Reapplied
  /\ before.tintEls # <<>> /\ before.htmlDark /\ before.rootFilter = "protanopia"
  /\ lastMessage.state.overlayEnabled = "false"
  /\ lastMessage.state.darkModeEnabled = "false"
  /\ lastMessage.state.cvdEnabled = "true"
  /\ lastMessage.state.cvdMode = "tritanopia"
  /\ ~TintShown /\ DarkAbsent /\ rootFilter = "tritanopia"

\* C30: whatever COLOR_OVERLAY_TOGGLE and COLOR_OVERLAY_UPDATE messages were
\* handled, the document holds at most one overlay element; an enable that
\* finds the element keeps it; an update that finds no element changes nothing;
\* an update with only a colour shows that colour at the opacity the tint had,
\* and an update with only an opacity shows the colour the tint had at that
\* opacity.
C30_OneOverlay ==
  /\ Len(tintEls) <= 1
  /\ (lastMessage.type = "COLOR_OVERLAY_TOGGLE" /\ lastMessage.enabled = "true"
      /\ before.tintEls # <<>>) => Len(tintEls) = Len(before.tintEls)
  /\ (lastMessage.type = "COLOR_OVERLAY_UPDATE" /\ before.tintEls = <<>>)
       => CurFilters = before
  /\ (lastMessage.type = "COLOR_OVERLAY_UPDATE" /\ before.tintEls # <<>>) =>
       LET settings == lastMessage.settings
           was == before.tintEls[1]
           now == tintEls[1]
       IN  /\ (settings.color # NoColor /\ settings.opacity = Undef) =>
                 /\ TintColor(now) = Rgb(settings.color)
                 /\ TintOpacity(now) = TintOpacity(was)
           /\ (settings.color = NoColor /\ settings.opacity # Undef) =>
                 /\ TintColor(now) = TintColor(was)
                 /\ TintOpacity(now) = settings.opacity

\* The last step handled a message that enables or updates the CVD filter
\* with mode 'none' or with no mode.
CvdNoMode ==
  \/ /\ lastMessage.type = "CVD_FILTER_TOGGLE" /\ lastMessage.enabled = "true"
     /\ lastMessage.settings.mode \in {"none", "undefined"}
  \/ /\ lastMessage.type = "CVD_FILTER_UPDATE"
     /\ lastMessage.settings.mode \in {"none", "undefined"}
  \/ /\ Reapplied /\ lastMessage.state.cvdEnabled = "true"
     /\ lastMessage.state.cvdMode \in {"none", "undefined"}

\* C31: whatever CVD_FILTER_TOGGLE, CVD_FILTER_UPDATE and REAPPLY_STATE messages
\* were handled, the filter property of <html> is set only while the SVG
\* definitions element is in the document, the document holds at most one such
\* element, and an enable or an update with mode 'none' or without a mode
\* leaves the filter property removed, from every document.
C31_FilterNeedsDefinitions ==
  /\ rootFilter # "" => svgFilters >= 1
  /\ svgFilters <= 1
  /\ CvdNoMode => rootFilter = ""
  /\ \A s \in {t \in FilterSettings : t.mode \in {"none", "undefined"}} :
       /\ cvdEnable(CurFilters, s).rootFilter = ""
       /\ cvdUpdate(CurFilters, s).rootFilter = ""

\* An update without a mode that found a filter applied.
C31_Witness ==
  /\ lastMessage.type = "CVD_FILTER_UPDATE"
  /\ lastMessage.settings.mode = "undefined"
  /\ before.rootFilter = "protanopia" /\ before.svgFilters = 1
  /\ CvdAbsent

\* C32: whatever DARK_MODE_TOGGLE and REAPPLY_STATE messages were handled, the
\* dark-mode style element is in the document iff <html> carries the dark
\* class, the document holds at most one such element, and a second enable or
\* a second disable changes nothing.
C32_DarkStyleIffClass ==
  /\ darkStyles >= 1 <=> htmlDark
  /\ darkStyles <= 1
  /\ darkModeEnable(darkModeEnable(CurFilters)) = darkModeEnable(CurFilters)
  /\ darkModeDisable(darkModeDisable(CurFilters)) = darkModeDisable(CurFilters)
  /\ lastMessage.type = "DARK_MODE_TOGGLE" =>
       /\ (lastMessage.enabled = "true" /\ before.htmlDark) => CurFilters = before
       /\ (lastMessage.enabled # "true" /\ ~before.htmlDark) => CurFilters = before

\* A dark-mode enable that found the dark mode on.
C32_Witness ==
  /\ lastMessage.type = "DARK_MODE_TOGGLE" /\ lastMessage.enabled = "true"
  /\ before.htmlDark /\ before.darkStyles = 1
  /\ DarkShown /\ darkStyles = 1

====
